---- MODULE Spec2Model ----
(***************************************************************************)
(* The three tool adapters of the repository (web search, GitHub, GitLab)  *)
(* as one state machine.  A behaviour is the life of ONE adapter process:  *)
(* module load (credential check, handler registration, transport         *)
(* connect), then call-tool / list-tools requests whose async handlers     *)
(* run up to their first await, are suspended on the outbound call, and    *)
(* are resumed with the backing service's answer; and SIGINT.              *)
(***************************************************************************)
EXTENDS Integers, Sequences, FiniteSets, TLC

VARIABLES
    adapter,      \* which of the three programs this process runs
    env,          \* process.env, the variables the programs read
    proc,         \* "loading" | "running" | "closing" | "exited"
    exit,         \* how the process ended
    channel,      \* the stdio transport: "unopened" | "open" | "closed"
    sigint,       \* TRUE once a SIGINT has been delivered to the process
    frames,       \* one entry per call-tool request received, in arrival order
    lastDone,     \* the invocation whose handler finished most recently
    responses,    \* per request, the number of responses written for it
    failed,       \* number of invocations that ended with an error so far
    listed        \* the answer to the most recent list-tools request

vars == <<adapter, env, proc, exit, channel, sigint, frames, lastDone,
          responses, failed, listed>>

(***************************************************************************)
(* Bounds of the model.                                                    *)
(***************************************************************************)
MaxReq == 2          \* call-tool requests received in one behaviour

(***************************************************************************)
(* JavaScript values, as far as the handlers look at them.  A number is    *)
(* kept as twice its value in n2, so that 2.5 is a value; NaN is a number  *)
(* whose nan flag is set.                                                  *)
(***************************************************************************)
Undef     == [t |-> "undefined", s |-> "", n2 |-> 0, nan |-> FALSE]
Str(x)    == [t |-> "string", s |-> x, n2 |-> 0, nan |-> FALSE]
Num(k)    == [t |-> "number", s |-> "", n2 |-> 2 * k, nan |-> FALSE]
Half(k2)  == [t |-> "number", s |-> "", n2 |-> k2, nan |-> FALSE]
NaN       == [t |-> "number", s |-> "", n2 |-> 0, nan |-> TRUE]

IsInteger(v) == v.t = "number" /\ ~v.nan /\ v.n2 % 2 = 0

\* Boolean(v): undefined, "", 0 and NaN are falsy.
Truthy(v) ==
    CASE v.t = "undefined" -> FALSE
      [] v.t = "string"    -> v.s # ""
      [] v.t = "number"    -> ~v.nan /\ v.n2 # 0

Digits == <<"0", "1", "2", "3", "4", "5", "6", "7", "8", "9">>

\* The decimal digits of a natural number, most significant first.
RECURSIVE DecimalDigits(_)
DecimalDigits(k) ==
    IF k < 10 THEN <<Digits[k + 1]>>
    ELSE Append(DecimalDigits(k \div 10), Digits[(k % 10) + 1])

\* A text is a sequence of pieces; string concatenation is \o.
NumberText(v) ==
    IF v.nan THEN <<"NaN">>
    ELSE LET a    == IF v.n2 < 0 THEN 0 - v.n2 ELSE v.n2
             sign == IF v.n2 < 0 THEN <<"-">> ELSE <<>>
             frac == IF a % 2 = 1 THEN <<".", "5">> ELSE <<>>
         IN  sign \o DecimalDigits(a \div 2) \o frac

\* String(v): undefined becomes the nine letters "undefined".
ToStringJS(v) ==
    CASE v.t = "undefined" -> <<"undefined">>
      [] v.t = "string"    -> IF v.s = "" THEN <<>> ELSE <<v.s>>
      [] v.t = "number"    -> NumberText(v)

\* The numeric string literals among the argument strings of the model.
NumericLiterals == [s \in {"", "7"} |-> IF s = "" THEN 0 ELSE 7]

\* Number(v): undefined and unparsable strings become NaN, "" becomes 0.
ToNumberJS(v) ==
    CASE v.t = "undefined" -> NaN
      [] v.t = "number"    -> v
      [] v.t = "string"    -> IF v.s \in DOMAIN NumericLiterals
                              THEN Num(NumericLiterals[v.s]) ELSE NaN

(***************************************************************************)
(* Argument bags.  request.params.arguments is either absent or an object; *)
(* a field the object lacks reads as undefined.                            *)
(***************************************************************************)
Fields == {"query", "count", "owner", "repo", "path", "ref", "language",
           "project_id", "merge_request_iid"}

NoArgs == [present |-> FALSE, f |-> [k \in Fields |-> Undef]]
Obj(r) == [present |-> TRUE,
           f |-> [k \in Fields |-> IF k \in DOMAIN r THEN r[k] ELSE Undef]]

\* request.params.arguments?.field
OptField(args, k) == IF args.present THEN args.f[k] ELSE Undef

EmptyObj == Obj(<<>>)

\* obj.key of a response object; a key the object lacks reads as undefined.
Get(o, k) == IF k \in DOMAIN o THEN o[k] ELSE Undef

(***************************************************************************)
(* Errors and handler outcomes.  An error is either an McpError with one   *)
(* of the SDK's error codes or another Error (AxiosError, RequestError,    *)
(* TypeError, ...); status is the HTTP status of error.response, 0 when    *)
(* there is none.                                                          *)
(***************************************************************************)
NoErr == [t |-> "none", code |-> "", message |-> <<>>, isAxios |-> FALSE, status |-> 0]
McpError(code, message) ==
    [t |-> "McpError", code |-> code, message |-> message, isAxios |-> FALSE, status |-> 0]
HttpError(isAxios, status, message) ==
    [t |-> "Error", code |-> "", message |-> <<message>>, isAxios |-> isAxios, status |-> status]
TypeError(message) ==
    [t |-> "Error", code |-> "", message |-> <<message>>, isAxios |-> FALSE, status |-> 0]

IsMcpError(e) == e.t = "McpError"

\* error instanceof Error ? error.message : 'Unknown error'
ErrorMessage(e) == IF e.t \in {"Error", "McpError"} THEN e.message ELSE <<"Unknown error">>

NoText      == [kind |-> "none", lit |-> "", json |-> <<>>]
Literal(s)  == [kind |-> "literal", lit |-> s, json |-> <<>>]
JsonText(v) == [kind |-> "json", lit |-> "", json |-> v]

\* What a handler invocation ends with: a returned result { content: [{ type:
\* 'text', text }] } or a thrown error.
NoOutcome   == [t |-> "none", err |-> NoErr, text |-> NoText]
Return(txt) == [t |-> "return", err |-> NoErr, text |-> txt]
Throw(e)    == [t |-> "throw", err |-> e, text |-> NoText]

\* A handler step either suspends on an outbound call or ends the invocation.
\* raised is the error first raised inside the handler, if any.
NoCall == [api |-> "none"]
Await(pc, call, locals) ==
    [kind |-> "await", pc |-> pc, call |-> call, locals |-> locals,
     raised |-> NoErr, outcome |-> NoOutcome]
Done(raised, outcome) ==
    [kind |-> "done", pc |-> "done", call |-> NoCall, locals |-> <<>>,
     raised |-> raised, outcome |-> outcome]

\* JSON.stringify of an object: a key whose value is undefined is left out.
StringifyObject(o) ==
    LET keep == {k \in DOMAIN o : o[k].t # "undefined"}
    IN  [k \in keep |-> o[k]]

\* JSON.stringify of an array of objects: same length, same order.
StringifyArray(a) == [i \in 1..Len(a) |-> StringifyObject(a[i])]

(***************************************************************************)
(* The web search adapter.                                                 *)
(***************************************************************************)
\* const count = Number(request.params.arguments?.count) || 5
SearchCount(args) ==
    LET n == ToNumberJS(OptField(args, "count"))
    IN  IF Truthy(n) THEN n ELSE Num(5)

\* const query = String(request.params.arguments?.query)
SearchQuery(args) == ToStringJS(OptField(args, "query"))

\* response.data.web?.results?.length
ResultsLength(data) ==
    IF data.hasWeb /\ data.hasResults THEN Len(data.results) ELSE 0

\* SearchReshape without the test for an empty result list.
SearchReshapeNoEmptyTest(data) ==
    JsonText(StringifyArray(
        [i \in 1..ResultsLength(data) |->
            [title       |-> Get(data.results[i], "title"),
             url         |-> Get(data.results[i], "url"),
             description |-> Get(data.results[i], "description")]]))

\* The body of the try block after the await: the reshape of the response.
SearchReshape(data) ==
    IF ResultsLength(data) = 0
    THEN Literal("No results found.")
    ELSE JsonText(StringifyArray(
             [i \in 1..Len(data.results) |->
                 [title       |-> Get(data.results[i], "title"),
                  url         |-> Get(data.results[i], "url"),
                  description |-> Get(data.results[i], "description")]]))

SearchHint ==
    <<"Search failed: Please visit https://api.search.brave.com to get started with Brave Search API">>

\* The catch clause of the search handler.
SearchCatch(e) ==
    IF e.isAxios /\ e.status = 401
    THEN McpError("InternalError", SearchHint)
    ELSE McpError("InternalError", <<"Search failed: ">> \o ErrorMessage(e))

\* The call-tool handler of the search adapter up to its first await.
SearchBegin(name, args) ==
    IF name # "search"
    THEN LET e == McpError("MethodNotFound", <<"Unknown tool">>) IN Done(e, Throw(e))
    ELSE IF SearchQuery(args) = <<>>
    THEN LET e == McpError("InvalidParams", <<"Search query is required">>) IN Done(e, Throw(e))
    ELSE Await("awaitGet",
               [api |-> "brave.search", q |-> SearchQuery(args), count |-> SearchCount(args)],
               <<>>)

\* The rest of the search handler, run when axios.get settles.
SearchContinue(reply) ==
    IF reply.ok
    THEN Done(NoErr, Return(SearchReshape(reply.data)))
    ELSE Done(reply.err, Throw(SearchCatch(reply.err)))

(***************************************************************************)
(* The GitHub adapter.                                                     *)
(***************************************************************************)
\* A destructuring default ({ ref = 'main' }) replaces undefined only.
Default(v, d) == IF v.t = "undefined" THEN d ELSE v

\* GitHubCatch without its try/catch: every error leaves the handler as raised.
GitHubCatchRethrow(e) == e

\* The catch clause of the GitHub handler.
GitHubCatch(e) ==
    IF IsMcpError(e) THEN e
    ELSE McpError("InternalError", <<"GitHub API error: ">> \o ErrorMessage(e))

\* let q = query; if (language) q += ...; if (owner && repo) q += ...;
\* else if (owner) q += ...   (q stays undefined when query is undefined and
\* nothing is appended; += turns an undefined q into the text "undefined").
GitHubQuery(f) ==
    LET lang  == IF Truthy(f["language"])
                 THEN <<" language:">> \o ToStringJS(f["language"]) ELSE <<>>
        scope == IF Truthy(f["owner"]) /\ Truthy(f["repo"])
                 THEN <<" repo:">> \o ToStringJS(f["owner"]) \o <<"/">> \o ToStringJS(f["repo"])
                 ELSE IF Truthy(f["owner"])
                 THEN <<" user:">> \o ToStringJS(f["owner"])
                 ELSE <<>>
    IN  IF lang \o scope = <<>> /\ f["query"].t = "undefined"
        THEN [undefined |-> TRUE, text |-> <<>>]
        ELSE [undefined |-> FALSE, text |-> ToStringJS(f["query"]) \o lang \o scope]

\* Destructuring the absent argument bag throws a TypeError inside the try.
DestructureError == TypeError("Cannot destructure property 'owner' of 'args' as it is undefined.")

\* The call-tool handler of the GitHub adapter up to its first await.
GitHubBegin(name, args) ==
    CASE name = "read_file" ->
           IF ~args.present
           THEN Done(DestructureError, Throw(GitHubCatch(DestructureError)))
           ELSE Await("awaitGetContent",
                      [api |-> "github.getContent", owner |-> args.f["owner"],
                       repo |-> args.f["repo"], path |-> args.f["path"],
                       ref |-> Default(args.f["ref"], Str("main"))],
                      <<>>)
      [] name = "search_code" ->
           IF ~args.present
           THEN Done(DestructureError, Throw(GitHubCatch(DestructureError)))
           ELSE Await("awaitSearchCode",
                      [api |-> "github.searchCode", q |-> GitHubQuery(args.f), per_page |-> 10],
                      <<>>)
      [] name = "list_repository_content" ->
           IF ~args.present
           THEN Done(DestructureError, Throw(GitHubCatch(DestructureError)))
           ELSE Await("awaitGetContent",
                      [api |-> "github.getContent", owner |-> args.f["owner"],
                       repo |-> args.f["repo"], path |-> Default(args.f["path"], Str("")),
                       ref |-> Default(args.f["ref"], Str("main"))],
                      <<>>)
      [] OTHER ->
           LET e == McpError("MethodNotFound", <<"Unknown tool: ", name>>)
           IN  Done(e, Throw(GitHubCatch(e)))

\* Buffer.from(content, 'base64'): content is a sequence of base64 digits
\* (0..63) with 64 for the padding character; every four digits give up to
\* three bytes.
RECURSIVE Base64Decode(_)
Base64Decode(c) ==
    IF Len(c) < 2 \/ c[1] = 64 \/ c[2] = 64 THEN <<>>
    ELSE LET b1 == (c[1] * 4 + c[2] \div 16) % 256 IN
         IF Len(c) < 3 \/ c[3] = 64 THEN <<b1>>
         ELSE LET b2 == ((c[2] % 16) * 16 + c[3] \div 4) % 256 IN
              IF Len(c) < 4 \/ c[4] = 64 THEN <<b1, b2>>
              ELSE LET b3 == ((c[3] % 4) * 64 + c[4]) % 256
                   IN  <<b1, b2, b3>> \o Base64Decode(SubSeq(c, 5, Len(c)))

\* buffer.toString('utf-8'): the code points of the bytes; one- and two-byte
\* sequences are decoded, any other byte gives U+FFFD.
RECURSIVE Utf8Decode(_)
Utf8Decode(b) ==
    IF b = <<>> THEN <<>>
    ELSE IF b[1] < 128 THEN <<b[1]>> \o Utf8Decode(Tail(b))
    ELSE IF b[1] \in 194..223 /\ Len(b) >= 2 /\ b[2] \in 128..191
    THEN <<(b[1] - 192) * 64 + (b[2] - 128)>> \o Utf8Decode(Tail(Tail(b)))
    ELSE <<65533>> \o Utf8Decode(Tail(b))

Utf8Text(cp) == [kind |-> "utf8", lit |-> "", json |-> cp]

\* read_file after the await.
ReadFileReshape(data) ==
    IF ~data.isArray /\ data.hasContent
    THEN Done(NoErr, Return(Utf8Text(Utf8Decode(Base64Decode(data.content)))))
    ELSE LET e == McpError("InternalError", <<"Invalid response format from GitHub API">>)
         IN  Done(e, Throw(GitHubCatch(e)))

\* list_repository_content after the await.
ListContentReshape(data) ==
    IF data.isArray
    THEN Done(NoErr, Return(JsonText(StringifyArray(
             [i \in 1..Len(data.entries) |->
                 [name |-> Get(data.entries[i], "name"),
                  type |-> Get(data.entries[i], "type"),
                  path |-> Get(data.entries[i], "path"),
                  size |-> Get(data.entries[i], "size")]]))))
    ELSE LET e == McpError("InternalError", <<"Expected directory listing">>)
         IN  Done(e, Throw(GitHubCatch(e)))

\* search_code after the await.
SearchCodeReshape(data) ==
    Done(NoErr, Return(JsonText(StringifyArray(
        [i \in 1..Len(data.items) |->
            [repository |-> Get(data.items[i].repository, "full_name"),
             path       |-> Get(data.items[i], "path"),
             url        |-> Get(data.items[i], "html_url")]]))))

\* The rest of the GitHub handler, run when the Octokit call settles.
GitHubContinue(name, reply) ==
    IF ~reply.ok THEN Done(reply.err, Throw(GitHubCatch(reply.err)))
    ELSE CASE name = "read_file"               -> ReadFileReshape(reply.data)
           [] name = "list_repository_content" -> ListContentReshape(reply.data)
           [] name = "search_code"             -> SearchCodeReshape(reply.data)

(***************************************************************************)
(* The GitLab adapter.                                                     *)
(***************************************************************************)
\* validateGetMergeRequestContentArgs: the error it throws, NoErr when the
\* arguments pass.  The argument bag is an object whenever it is present.
ValidateGetMergeRequestContentArgs(args) ==
    IF ~args.present
    THEN McpError("InvalidParams", <<"Invalid arguments">>)
    ELSE IF args.f["project_id"].t # "string"
    THEN McpError("InvalidParams", <<"project_id must be a string">>)
    ELSE IF args.f["merge_request_iid"].t # "number"
    THEN McpError("InvalidParams", <<"merge_request_iid must be a number">>)
    ELSE NoErr

\* GitLabCatch without the instanceof McpError test: every error is wrapped.
GitLabCatchAlwaysWrap(e) ==
    McpError("InternalError", <<"GitLab API error: ">> \o ErrorMessage(e))

\* The catch clause of the GitLab handler.
GitLabCatch(e) ==
    IF IsMcpError(e) THEN e
    ELSE McpError("InternalError", <<"GitLab API error: ">> \o ErrorMessage(e))

MergeRequestCall(api, host, args) ==
    [api |-> api, host |-> host, project_id |-> args.f["project_id"],
     merge_request_iid |-> args.f["merge_request_iid"]]

\* The call-tool handler of the GitLab adapter up to its first await.  The
\* check for an absent argument bag comes first and stands outside the try.
GitLabBegin(name, args, host) ==
    IF ~args.present
    THEN LET e == McpError("InvalidParams", <<"No arguments provided">>) IN Done(e, Throw(e))
    ELSE IF name = "get_merge_request_content"
    THEN LET v == ValidateGetMergeRequestContentArgs(args) IN
         IF v # NoErr
         THEN Done(v, Throw(GitLabCatch(v)))
         ELSE Await("awaitShow", MergeRequestCall("gitlab.MergeRequests.show", host, args), <<>>)
    ELSE LET e == McpError("MethodNotFound", <<"Unknown tool: ", name>>)
         IN  Done(e, Throw(GitLabCatch(e)))

MergeRequestKeys ==
    {"id", "iid", "title", "description", "state", "source_branch", "target_branch"}

\* The content object and its JSON text: the seven fields of the merge
\* request and one { old_path, new_path, diff } per diff, in order.
MergeRequestContent(mr, diffs) ==
    [content |-> StringifyObject([k \in MergeRequestKeys |-> Get(mr, k)]),
     changes |-> StringifyArray(
                     [i \in 1..Len(diffs) |->
                         [old_path |-> Get(diffs[i], "old_path"),
                          new_path |-> Get(diffs[i], "new_path"),
                          diff     |-> Get(diffs[i], "diff")]])]

\* The rest of the GitLab handler: after MergeRequests.show settles it calls
\* MergeRequests.allDiffs, after that it formats the response.
GitLabContinue(pc, mr, args, host, reply) ==
    IF ~reply.ok THEN Done(reply.err, Throw(GitLabCatch(reply.err)))
    ELSE IF pc = "awaitShow"
    THEN Await("awaitAllDiffs",
               MergeRequestCall("gitlab.MergeRequests.allDiffs", host, args), reply.data)
    ELSE Done(NoErr, Return(JsonText(MergeRequestContent(mr, reply.data))))

(***************************************************************************)
(* The tool registries: what each list-tools handler returns.              *)
(***************************************************************************)
Descriptor(name, required, optional) ==
    [name |-> name, required |-> required, optional |-> optional]

ListTools(a) ==
    CASE a = "search" ->
           << Descriptor("search", {"query"}, {"count"}) >>
      [] a = "github" ->
           << Descriptor("read_file", {"owner", "repo", "path"}, {"ref"}),
              Descriptor("search_code", {"query"}, {"language", "owner", "repo"}),
              Descriptor("list_repository_content", {"owner", "repo"}, {"path", "ref"}) >>
      [] a = "gitlab" ->
           << Descriptor("get_merge_request_content",
                         {"project_id", "merge_request_iid"}, {}) >>

(***************************************************************************)
(* Process start: the top-level code of each program.                      *)
(***************************************************************************)
Adapters == {"search", "github", "gitlab"}
EnvVars  == {"BRAVE_API_KEY", "GITLAB_TOKEN", "GITLAB_URL"}

\* The environment variables each program reads.
ReadsEnv(a) ==
    CASE a = "search" -> {"BRAVE_API_KEY"}
      [] a = "gitlab" -> {"GITLAB_TOKEN", "GITLAB_URL"}
      [] a = "github" -> {}

\* CredentialMissing with the two credential checks left out.
CredentialNeverMissing(a, e) == FALSE

\* if (!API_KEY) throw ... / if (!GITLAB_TOKEN) throw ...; the GitHub program
\* builds its Octokit client without auth and reads no variable.
CredentialMissing(a, e) ==
    CASE a = "search" -> ~Truthy(e["BRAVE_API_KEY"])
      [] a = "gitlab" -> ~Truthy(e["GITLAB_TOKEN"])
      [] a = "github" -> FALSE

\* process.env.GITLAB_URL || 'https://gitlab.com'
GitLabHost(e) ==
    IF Truthy(e["GITLAB_URL"]) THEN e["GITLAB_URL"].s ELSE "https://gitlab.com"

\* process.on('SIGINT', ...) is registered by the GitHubServer and GitLabServer
\* constructors; the search program registers no signal handler.
HandlesSigint(a) == a \in {"github", "gitlab"}

NoExit         == [kind |-> "none", code |-> 0, signal |-> ""]
ExitCode(c)    == [kind |-> "code", code |-> c, signal |-> ""]
KilledBy(sig)  == [kind |-> "signal", code |-> 0, signal |-> sig]

Retired == [name |-> "", args |-> NoArgs, pc |-> "done", calls |-> <<>>,
            replies |-> <<>>, locals |-> <<>>, afterFailure |-> FALSE]

NoDone == [id |-> 0, name |-> "", args |-> NoArgs, calls |-> <<>>, replies |-> <<>>,
           raised |-> NoErr, outcome |-> NoOutcome, afterFailure |-> FALSE]

\* A variable is unset, set to the empty string, or set to a non-empty string.
EnvValues(v) ==
    IF v = "GITLAB_URL" THEN {Undef, Str("https://gitlab.example.com")}
    ELSE {Undef, Str(""), Str("secret")}

Init ==
    /\ adapter \in Adapters
    /\ env \in {e \in [EnvVars -> UNION {EnvValues(v) : v \in EnvVars}] :
                   \A v \in EnvVars :
                       /\ e[v] \in EnvValues(v)
                       /\ v \notin ReadsEnv(adapter) => e[v] = Undef}
    /\ proc = "loading"
    /\ exit = NoExit
    /\ channel = "unopened"
    /\ sigint = FALSE
    /\ frames = <<>>
    /\ lastDone = NoDone
    /\ responses = [i \in 1..MaxReq |-> 0]
    /\ failed = 0
    /\ listed = <<>>

\* The module's top-level code up to server.connect(transport).  An error
\* thrown at top level is uncaught: Node ends the process with status 1.
Startup ==
    /\ proc = "loading"
    /\ IF CredentialMissing(adapter, env)
       THEN /\ proc' = "exited"
            /\ exit' = ExitCode(1)
            /\ UNCHANGED channel
       ELSE /\ proc' = "running"
            /\ channel' = "open"
            /\ UNCHANGED exit
    /\ UNCHANGED <<adapter, env, sigint, frames, lastDone, responses, failed, listed>>

(***************************************************************************)
(* Call-tool requests.  The SDK calls the registered async handler with    *)
(* each request it reads and writes one response when the handler's        *)
(* promise settles: the result, or the thrown error as an error response.  *)
(***************************************************************************)
Settle(id, name, args, calls, replies, aft, step) ==
    /\ lastDone' = [id |-> id, name |-> name, args |-> args, calls |-> calls,
                    replies |-> replies, raised |-> step.raised,
                    outcome |-> step.outcome, afterFailure |-> aft]
    /\ responses' = [responses EXCEPT ![id] = @ + 1]
    /\ failed' = IF step.outcome.t = "throw" THEN failed + 1 ELSE failed

\* A request arrives and its handler runs up to its first await, or to its end.
Begin(name, args, step) ==
    LET id == Len(frames) + 1 IN
    IF step.kind = "await"
    THEN /\ frames' = Append(frames,
                [name |-> name, args |-> args, pc |-> step.pc,
                 calls |-> <<step.call>>, replies |-> <<>>,
                 locals |-> step.locals, afterFailure |-> failed > 0])
         /\ UNCHANGED <<lastDone, responses, failed>>
    ELSE /\ frames' = Append(frames, Retired)
         /\ Settle(id, name, args, <<>>, <<>>, failed > 0, step)

\* Continue with a retry: a failed call is issued once more before giving up.
ContinueRetrying(id, reply, step) ==
    LET f == frames[id] IN
    IF ~reply.ok /\ Len(f.replies) < Len(f.calls)
    THEN /\ frames' = [frames EXCEPT ![id] =
                [f EXCEPT !.calls = Append(@, @[Len(@)]), !.replies = Append(@, reply)]]
         /\ UNCHANGED <<lastDone, responses, failed>>
    ELSE IF step.kind = "await"
    THEN /\ frames' = [frames EXCEPT ![id] =
                [f EXCEPT !.pc = step.pc, !.calls = Append(@, step.call),
                          !.replies = Append(@, reply), !.locals = step.locals]]
         /\ UNCHANGED <<lastDone, responses, failed>>
    ELSE /\ frames' = [frames EXCEPT ![id] = Retired]
         /\ Settle(id, f.name, f.args, f.calls, Append(f.replies, reply),
                   f.afterFailure, step)

\* The awaited call of request id settles and its handler runs on.
Continue(id, reply, step) ==
    LET f == frames[id] IN
    IF step.kind = "await"
    THEN /\ frames' = [frames EXCEPT ![id] =
                [f EXCEPT !.pc = step.pc, !.calls = Append(@, step.call),
                          !.replies = Append(@, reply), !.locals = step.locals]]
         /\ UNCHANGED <<lastDone, responses, failed>>
    ELSE /\ frames' = [frames EXCEPT ![id] = Retired]
         /\ Settle(id, f.name, f.args, f.calls, Append(f.replies, reply),
                   f.afterFailure, step)

Ok(data) == [ok |-> TRUE, err |-> NoErr, data |-> data]
Fail(e)  == [ok |-> FALSE, err |-> e, data |-> <<>>]

(***************************************************************************)
(* Requests and backing-service answers of the search adapter.             *)
(***************************************************************************)
SearchNames == {"search", "fetch"}

SearchCounts == {Num(0), Num(20), Num(21), Num(-1), Half(5), Str("abc"), Str("7")}

SearchArgBags ==
    {NoArgs, EmptyObj, Obj([query |-> Str("")]), Obj([query |-> Str("tla")]),
     Obj([count |-> Num(3)])}
    \cup {Obj([query |-> Str("tla"), count |-> c]) : c \in SearchCounts}

Hit1 == [title |-> Str("TLA+"), url |-> Str("https://a.example"),
         description |-> Str("a language"), age |-> Str("1d")]
Hit2 == [title |-> Str("TLC"), url |-> Str("https://b.example"),
         description |-> Str("a checker")]

SearchReplies ==
    << Fail(HttpError(TRUE, 401, "Request failed with status code 401")),
       Fail(HttpError(TRUE, 0, "connect ECONNREFUSED")),
       Ok([hasWeb |-> FALSE, hasResults |-> FALSE, results |-> <<>>]),
       Ok([hasWeb |-> TRUE, hasResults |-> FALSE, results |-> <<>>]),
       Ok([hasWeb |-> TRUE, hasResults |-> TRUE, results |-> <<>>]),
       Ok([hasWeb |-> TRUE, hasResults |-> TRUE, results |-> <<Hit1>>]),
       Ok([hasWeb |-> TRUE, hasResults |-> TRUE, results |-> <<Hit1, Hit2>>]) >>

Serving == proc = "running" /\ channel = "open"

SearchCallTool ==
    /\ adapter = "search"
    /\ Serving
    /\ Len(frames) < MaxReq
    /\ \E name \in SearchNames, args \in SearchArgBags :
           Begin(name, args, SearchBegin(name, args))
    /\ UNCHANGED <<adapter, env, proc, exit, channel, sigint, listed>>

SearchResume ==
    /\ adapter = "search"
    /\ Serving
    /\ \E id \in 1..Len(frames), r \in 1..Len(SearchReplies) :
           /\ frames[id].pc = "awaitGet"
           /\ Continue(id, SearchReplies[r], SearchContinue(SearchReplies[r]))
    /\ UNCHANGED <<adapter, env, proc, exit, channel, sigint, listed>>

(***************************************************************************)
(* Requests and backing-service answers of the GitHub adapter.             *)
(***************************************************************************)
GitHubNames == {"read_file", "search_code", "list_repository_content", "delete_file"}

GitHubArgBags ==
    {NoArgs,
     Obj([owner |-> Str("tlaplus"), repo |-> Str("tlaplus"), path |-> Str("README.md")]),
     Obj([owner |-> Str("tlaplus"), repo |-> Str("tlaplus"), ref |-> Str("dev")]),
     Obj([repo |-> Str("tlaplus"), path |-> Str("README.md")]),
     Obj([query |-> Str("WF_vars"), language |-> Str("tla"), owner |-> Str("tlaplus")]),
     Obj([language |-> Str("tla"), owner |-> Str("tlaplus"), repo |-> Str("tlaplus")])}

Unauthorized == HttpError(FALSE, 401, "Bad credentials")
NotFound     == HttpError(FALSE, 404, "Not Found")

Entry1 == [name |-> Str("README.md"), type |-> Str("file"), path |-> Str("README.md"),
           size |-> Num(12), sha |-> Str("3b18e5")]
Entry2 == [name |-> Str("src"), type |-> Str("dir"), path |-> Str("src"), size |-> Num(0)]

\* "w6kK" is the base64 text of e-acute followed by a newline.
FileAccent == [isArray |-> FALSE, hasContent |-> TRUE, content |-> <<48, 58, 36, 10>>, entries |-> <<>>]
Directory(es) == [isArray |-> TRUE, hasContent |-> FALSE, content |-> <<>>, entries |-> es]

GetContentReplies ==
    << Fail(Unauthorized), Fail(NotFound), Ok(FileAccent),
       Ok(Directory(<<Entry1, Entry2>>)) >>

Item1 == [repository |-> [full_name |-> Str("tlaplus/tlaplus")], path |-> Str("a.tla"),
          html_url |-> Str("https://github.example/a.tla"), score |-> Num(1)]

SearchCodeReplies ==
    << Fail(Unauthorized), Ok([items |-> <<>>]), Ok([items |-> <<Item1, Item1>>]) >>

GitHubCallTool ==
    /\ adapter = "github"
    /\ Serving
    /\ Len(frames) < MaxReq
    /\ \E name \in GitHubNames, args \in GitHubArgBags :
           Begin(name, args, GitHubBegin(name, args))
    /\ UNCHANGED <<adapter, env, proc, exit, channel, sigint, listed>>

GitHubResumeGetContent ==
    /\ adapter = "github"
    /\ Serving
    /\ \E id \in 1..Len(frames), r \in 1..Len(GetContentReplies) :
           /\ frames[id].pc = "awaitGetContent"
           /\ Continue(id, GetContentReplies[r],
                       GitHubContinue(frames[id].name, GetContentReplies[r]))
    /\ UNCHANGED <<adapter, env, proc, exit, channel, sigint, listed>>

GitHubResumeSearchCode ==
    /\ adapter = "github"
    /\ Serving
    /\ \E id \in 1..Len(frames), r \in 1..Len(SearchCodeReplies) :
           /\ frames[id].pc = "awaitSearchCode"
           /\ Continue(id, SearchCodeReplies[r],
                       GitHubContinue(frames[id].name, SearchCodeReplies[r]))
    /\ UNCHANGED <<adapter, env, proc, exit, channel, sigint, listed>>

(***************************************************************************)
(* Requests and backing-service answers of the GitLab adapter.             *)
(***************************************************************************)
GitLabNames == {"get_merge_request_content", "list_projects"}

GitLabArgBags ==
    {NoArgs, EmptyObj,
     Obj([project_id |-> Str("group/app"), merge_request_iid |-> Num(7)]),
     Obj([project_id |-> Str("group/app")]),
     Obj([merge_request_iid |-> Num(7)]),
     Obj([project_id |-> Num(42), merge_request_iid |-> Num(7)]),
     Obj([project_id |-> Str("group/app"), merge_request_iid |-> Str("7")])}

GitLabUnauthorized == HttpError(FALSE, 401, "Unauthorized")
GitLabNotFound     == HttpError(FALSE, 404, "Not Found")

MergeRequest7 ==
    [id |-> Num(1001), iid |-> Num(7), title |-> Str("Fix parser"),
     description |-> Str("Fixes the parser"), state |-> Str("opened"),
     source_branch |-> Str("fix"), target_branch |-> Str("main"),
     author |-> Str("lamport")]

Diff1 == [old_path |-> Str("a.tla"), new_path |-> Str("a.tla"), diff |-> Str("@@ -1 +1 @@"),
          new_file |-> Str("false")]
Diff2 == [old_path |-> Str("b.tla"), new_path |-> Str("c.tla"), diff |-> Str("@@ -2 +2 @@")]

ShowReplies == << Fail(GitLabUnauthorized), Fail(GitLabNotFound), Ok(MergeRequest7) >>

AllDiffsReplies ==
    << Fail(GitLabUnauthorized), Ok(<<>>), Ok(<<Diff1>>), Ok(<<Diff1, Diff2>>) >>

GitLabCallTool ==
    /\ adapter = "gitlab"
    /\ Serving
    /\ Len(frames) < MaxReq
    /\ \E name \in GitLabNames, args \in GitLabArgBags :
           Begin(name, args, GitLabBegin(name, args, GitLabHost(env)))
    /\ UNCHANGED <<adapter, env, proc, exit, channel, sigint, listed>>

GitLabResumeShow ==
    /\ adapter = "gitlab"
    /\ Serving
    /\ \E id \in 1..Len(frames), r \in 1..Len(ShowReplies) :
           /\ frames[id].pc = "awaitShow"
           /\ Continue(id, ShowReplies[r],
                       GitLabContinue("awaitShow", frames[id].locals, frames[id].args,
                                      GitLabHost(env), ShowReplies[r]))
    /\ UNCHANGED <<adapter, env, proc, exit, channel, sigint, listed>>

GitLabResumeAllDiffs ==
    /\ adapter = "gitlab"
    /\ Serving
    /\ \E id \in 1..Len(frames), r \in 1..Len(AllDiffsReplies) :
           /\ frames[id].pc = "awaitAllDiffs"
           /\ Continue(id, AllDiffsReplies[r],
                       GitLabContinue("awaitAllDiffs", frames[id].locals, frames[id].args,
                                      GitLabHost(env), AllDiffsReplies[r]))
    /\ UNCHANGED <<adapter, env, proc, exit, channel, sigint, listed>>

(***************************************************************************)
(* List-tools requests and SIGINT.                                         *)
(***************************************************************************)
ListToolsRequest ==
    /\ Serving
    /\ listed' = ListTools(adapter)
    /\ UNCHANGED <<adapter, env, proc, exit, channel, sigint, frames, lastDone,
                   responses, failed>>

\* SIGINT with the handler of the GitHub and GitLab programs registered:
\* await this.server.close() ...
SigintClose ==
    /\ proc = "running"
    /\ HandlesSigint(adapter)
    /\ sigint' = TRUE
    /\ channel' = "closed"
    /\ proc' = "closing"
    /\ UNCHANGED <<adapter, env, exit, frames, lastDone, responses, failed, listed>>

\* ... process.exit(0)
SigintExit ==
    /\ proc = "closing"
    /\ proc' = "exited"
    /\ exit' = ExitCode(0)
    /\ UNCHANGED <<adapter, env, channel, sigint, frames, lastDone, responses,
                   failed, listed>>

\* SIGINT with no handler registered (the search program): Node's default
\* disposition ends the process by the signal; server.close() is never called.
SigintDefault ==
    /\ proc = "running"
    /\ ~HandlesSigint(adapter)
    /\ sigint' = TRUE
    /\ proc' = "exited"
    /\ exit' = KilledBy("SIGINT")
    /\ UNCHANGED <<adapter, env, channel, frames, lastDone, responses, failed, listed>>

Next ==
    \/ Startup
    \/ SearchCallTool
    \/ SearchResume
    \/ GitHubCallTool
    \/ GitHubResumeGetContent
    \/ GitHubResumeSearchCode
    \/ GitLabCallTool
    \/ GitLabResumeShow
    \/ GitLabResumeAllDiffs
    \/ ListToolsRequest
    \/ SigintClose
    \/ SigintExit
    \/ SigintDefault

Spec == Init /\ [][Next]_vars

(***************************************************************************)
(* Vocabulary of the properties.                                           *)
(***************************************************************************)
ToolNames(a) == {ListTools(a)[i].name : i \in 1..Len(ListTools(a))}

RequiredOf(a, n) ==
    UNION {ListTools(a)[i].required : i \in {j \in 1..Len(ListTools(a)) : ListTools(a)[j].name = n}}

MissingRequired(a, n, args) ==
    \E k \in RequiredOf(a, n) : OptField(args, k).t = "undefined"

Pending == {i \in 1..Len(frames) : frames[i].pc # "done"}

Finished == lastDone.id > 0

FailedWith(code) ==
    /\ lastDone.outcome.t = "throw"
    /\ lastDone.outcome.err.t = "McpError"
    /\ lastDone.outcome.err.code = code

Saw401 ==
    \E r \in 1..Len(lastDone.replies) :
        ~lastDone.replies[r].ok /\ lastDone.replies[r].err.status = 401

\* The text m contains the text orig.
Carries(m, orig) ==
    \E i \in 0..(Len(m) - Len(orig)) : SubSeq(m, i + 1, i + Len(orig)) = orig

ErrorKinds == {"MethodNotFound", "InvalidParams", "InternalError"}

\* C1: in every adapter, a call-tool request whose tool name is not in the
\* registry fails with MethodNotFound, whatever its arguments (absent
\* included), and no outbound call is issued for it.
C1_UnknownToolIsMethodNotFound ==
    /\ (Finished /\ lastDone.name \notin ToolNames(adapter))
           => (FailedWith("MethodNotFound") /\ lastDone.calls = <<>>)
    /\ \A i \in Pending : frames[i].name \in ToolNames(adapter)

\* C2: in every adapter, a call-tool request for a registered tool that lacks
\* a field its schema requires fails with InvalidParams, and no outbound call
\* has been issued for it.
C2_MissingRequiredIsInvalidParams ==
    /\ (Finished /\ lastDone.name \in ToolNames(adapter)
                 /\ MissingRequired(adapter, lastDone.name, lastDone.args))
           => (FailedWith("InvalidParams") /\ lastDone.calls = <<>>)
    /\ \A i \in Pending :
           ~MissingRequired(adapter, frames[i].name, frames[i].args)

\* C3: invocations are handled one at a time: while one request's handler is
\* waiting on its outbound call, no other request has begun to be processed.
C3_OneInvocationAtATime == Cardinality(Pending) <= 1

\* C4: an invocation one of whose outbound calls failed with HTTP 401 ends
\* with an McpError of kind InternalError: not with another kind, not with a
\* result, not with an error that is not an McpError.
C4_AuthFailureIsInternalError ==
    (Finished /\ Saw401) => FailedWith("InternalError")

C4_Witness ==
    /\ Finished /\ Saw401
    /\ adapter = "github"
    /\ FailedWith("InternalError")

\* C5 as claimed: an error that is not an McpError leaves the handler as
\* InternalError carrying the original message, an McpError leaves it
\* unchanged, and every failure has one of the three kinds.
C5_WrapsOnceKeepingMessage ==
    (Finished /\ lastDone.outcome.t = "throw") =>
        /\ lastDone.outcome.err.t = "McpError"
        /\ lastDone.outcome.err.code \in ErrorKinds
        /\ lastDone.raised.t = "McpError" => lastDone.outcome.err = lastDone.raised
        /\ lastDone.raised.t = "Error" =>
               /\ lastDone.outcome.err.code = "InternalError"
               /\ Carries(lastDone.outcome.err.message, lastDone.raised.message)

\* C5 as amended: as above, except that the search adapter answers an HTTP 401
\* with InternalError carrying a fixed hint instead of the original message.
C5_WrapsOnceKeepingMessageBut401Hint ==
    (Finished /\ lastDone.outcome.t = "throw") =>
        /\ lastDone.outcome.err.t = "McpError"
        /\ lastDone.outcome.err.code \in ErrorKinds
        /\ lastDone.raised.t = "McpError" => lastDone.outcome.err = lastDone.raised
        /\ lastDone.raised.t = "Error" =>
               /\ lastDone.outcome.err.code = "InternalError"
               /\ IF adapter = "search" /\ lastDone.raised.status = 401
                  THEN lastDone.outcome.err.message = SearchHint
                  ELSE Carries(lastDone.outcome.err.message, lastDone.raised.message)

C5_Witness ==
    /\ Finished
    /\ adapter = "search"
    /\ lastDone.raised.t = "Error"
    /\ lastDone.raised.status = 401
    /\ lastDone.outcome.err = McpError("InternalError", SearchHint)

\* The ways a request can fail by itself: an unknown tool, an argument bag its
\* handler rejects or cannot destructure, a failed outbound call, or a
\* response of the wrong shape.
OwnCause(d) ==
    \/ d.name \notin ToolNames(adapter)
    \/ adapter \in {"github", "gitlab"} /\ ~d.args.present
    \/ \E r \in 1..Len(d.replies) : ~d.replies[r].ok
    \/ adapter = "search" /\ OptField(d.args, "query") = Str("")
    \/ adapter = "gitlab" /\ MissingRequired(adapter, d.name, d.args)
    \/ adapter = "gitlab" /\ d.args.f["project_id"].t # "string"
    \/ adapter = "gitlab" /\ d.args.f["merge_request_iid"].t # "number"
    \/ adapter = "github" /\ d.name = "read_file" /\ Len(d.replies) = 1
           /\ (d.replies[1].data.isArray \/ ~d.replies[1].data.hasContent)
    \/ adapter = "github" /\ d.name = "list_repository_content" /\ Len(d.replies) = 1
           /\ ~d.replies[1].data.isArray

CallsIssuedOnce(calls) ==
    \A i, j \in 1..Len(calls) : i # j => calls[i].api # calls[j].api

\* C6: failed invocations leave the process serving; every request is
\* answered at most once, and exactly once when its handler has finished; no
\* outbound call of an invocation is issued twice; and an invocation fails
\* only for a cause of its own, never because an earlier one failed.
C6_FailuresLeaveTheProcessServing ==
    /\ (failed > 0 /\ ~sigint) => (proc = "running" /\ channel = "open")
    /\ \A i \in 1..MaxReq :
           responses[i] = IF i <= Len(frames) /\ frames[i].pc = "done" THEN 1 ELSE 0
    /\ \A i \in Pending : CallsIssuedOnce(frames[i].calls)
    /\ Finished => CallsIssuedOnce(lastDone.calls)
    /\ Finished => (lastDone.outcome.t = "throw" <=> OwnCause(lastDone))

C6_Witness ==
    /\ Finished
    /\ lastDone.afterFailure
    /\ lastDone.outcome.t = "return"
    /\ failed > 0
    /\ Serving

\* C7 as claimed: every adapter has a credential variable, and a process
\* started with the credential variables absent exits with a non-zero status
\* without opening the channel or serving a request.
C7_NoCredentialNoChannel ==
    (\A v \in EnvVars : ~Truthy(env[v])) =>
        /\ channel = "unopened"
        /\ frames = <<>> /\ listed = <<>>
        /\ proc = "exited" => (exit.kind = "code" /\ exit.code # 0)

\* C7 as amended: the search and GitLab adapters each require one credential
\* variable (BRAVE_API_KEY, GITLAB_TOKEN) and exit with status 1, the channel
\* never opened, when it is absent or empty; the GitHub adapter requires none
\* and opens its channel whatever the environment.
C7_SearchAndGitLabNeedCredential ==
    /\ ((adapter = "search" /\ ~Truthy(env["BRAVE_API_KEY"]))
        \/ (adapter = "gitlab" /\ ~Truthy(env["GITLAB_TOKEN"])))
           => /\ channel = "unopened"
              /\ frames = <<>> /\ listed = <<>>
              /\ proc \in {"loading", "exited"}
              /\ proc = "exited" => exit = ExitCode(1)
    /\ (adapter = "github" /\ proc # "loading") => channel # "unopened"

C7_Witness ==
    /\ adapter = "gitlab"
    /\ env["GITLAB_TOKEN"] = Undef
    /\ proc = "exited"
    /\ exit = ExitCode(1)
    /\ channel = "unopened"

\* C8: in every adapter, a process that has ended after a SIGINT has closed
\* its channel and exited with status 0, and no process exits with status 0
\* with its channel not closed.
C8_SigintClosesThenExitsZero ==
    /\ (sigint /\ proc = "exited") => (exit = ExitCode(0) /\ channel = "closed")
    /\ exit = ExitCode(0) => channel = "closed"

\* C9: when the search call succeeds, a response without results (web or
\* results absent, or results empty) gives the text "No results found.", and
\* one with N >= 1 results gives the JSON text of an array of N objects, the
\* i-th with exactly the title, url and description of the i-th result.
C9_SearchResultText ==
    (adapter = "search" /\ Finished /\ Len(lastDone.replies) = 1 /\ lastDone.replies[1].ok) =>
        LET d   == lastDone.replies[1].data
            n   == IF d.hasWeb /\ d.hasResults THEN Len(d.results) ELSE 0
            txt == lastDone.outcome.text
        IN  /\ lastDone.outcome.t = "return"
            /\ IF n = 0
               THEN txt.kind = "literal" /\ txt.lit = "No results found."
               ELSE /\ txt.kind = "json"
                    /\ Len(txt.json) = n
                    /\ \A i \in 1..n :
                           /\ DOMAIN txt.json[i] = {"title", "url", "description"}
                           /\ \A k \in {"title", "url", "description"} :
                                  txt.json[i][k] = d.results[i][k]

C9_Witness ==
    /\ adapter = "search" /\ Finished
    /\ Len(lastDone.replies) = 1 /\ lastDone.replies[1].ok
    /\ Len(lastDone.replies[1].data.results) = 2
    /\ lastDone.outcome.text.kind = "json"

SearchCallsOf(calls) == {i \in 1..Len(calls) : calls[i].api = "brave.search"}

CountAsClaimed(args, count) ==
    /\ IsInteger(count)
    /\ count.n2 \div 2 \in 1..20
    /\ OptField(args, "count").t = "undefined" => count = Num(5)
    /\ (IsInteger(OptField(args, "count")) /\ OptField(args, "count").n2 \div 2 \in 1..20)
           => count = OptField(args, "count")

\* C10: the count of every outbound search request is an integer in 1..20:
\* the supplied count when that is in range, 5 when none is supplied.
C10_OutboundCountInRange ==
    /\ \A i \in Pending : \A c \in SearchCallsOf(frames[i].calls) :
           CountAsClaimed(frames[i].args, frames[i].calls[c].count)
    /\ Finished => \A c \in SearchCallsOf(lastDone.calls) :
           CountAsClaimed(lastDone.args, lastDone.calls[c].count)
====
